---- MODULE Spec2Model ----
(***************************************************************************)
(* Model of libsmartctl.cpp: the process-wide Client::Impl singleton, its  *)
(* one-time initialization, the device acquisition of initDevice and the    *)
(* three public operations cantIdDev, getDevInfo and getDevVendorAttrs,     *)
(* plus the errStr catalog.  Several threads construct Client values and    *)
(* call the operations; every external collaborator (device interface,      *)
(* drive database, ATA extractors) answers nondeterministically.            *)
(***************************************************************************)
EXTENDS Integers, Sequences, FiniteSets, TLC

\* ---------------------------------------------------------------- bounds
NumThreads == 2
MaxClients == 2
MaxAttempts == 2

Threads == 1..NumThreads

\* ------------------------------------------------------------- ctlerr_t
\* The keys of the errs map (lines 61-70).
errs ==
  [ NOERR |-> "No errors",
    POWERMODEBELOWOPTION |-> "The power mode is below the configured option",
    FAILEDDEVICEIDREAD |-> "Device read failure",
    FAILEDSMARTCMD |-> "Test SMART command failed",
    GETDEVICERR |-> "Could not retrieve device information",
    DEVICEOPENERR |-> "Could not open device",
    UNSUPPORTEDDEVICETYPE |-> "Device type is not supported",
    CLIENTINITIALIZTIONFAILURE |-> "libsmartctl client initialization failure" ]

\* The enumerators of ctlerr_t, as they are named in this file.
ctlerr_t ==
  { "NOERR", "POWERMODEBELOWOPTION", "FAILEDDEVICEIDREAD", "FAILEDSMARTCMD",
    "GETDEVICERR", "DEVICEOPENERR", "UNSUPPORTEDDEVICETYPE",
    "CLIENTINITIALIZTIONFAILURE" }

\* Values of the enum's underlying type that are no enumerator
\* (static_cast<ctlerr_t>(n) for an n outside the enumeration).
OutOfEnum == { "ctlerr_t(8)", "ctlerr_t(-1)" }

\* std::map::at of a missing key throws std::out_of_range.
errStrNoThrow(err) ==
  IF err \in DOMAIN errs
    THEN [outcome |-> "returned", str |-> errs[err]]
    ELSE [outcome |-> "returned", str |-> ""]

errStr(err) ==
  IF err \in DOMAIN errs
    THEN [outcome |-> "returned", str |-> errs[err]]
    ELSE [outcome |-> "out_of_range", str |-> ""]

\* ------------------------------------------------------- device objects
Null == 0
ObjIds == 1..(2 * NumThreads)

FreeObj == [live |-> FALSE, open |-> FALSE, ata |-> FALSE, owner |-> 0]

\* operator new, from the calling thread's arena: the lowest address of it
\* not in use.  An operation holds at most two objects at a time.
Arena(t) == { 2 * t - 1, 2 * t }
NewObj(h, t) ==
  CHOOSE i \in Arena(t) : ~h[i].live /\ \A j \in Arena(t) : j < i => h[j].live

DevNames == { "/dev/sda", "/dev/sdb" }
TypeHints == { "", "sat" }
NullPtr == "nullptr"

\* Payload of DevInfoResp / DevVendorAttrsResp: default-constructed, or
\* what an extractor has written into it.
Contents == { "empty", "partial", "full" }

\* A default-constructed response (lines 126, 160, 189).
DefaultContent(o) == IF o = "cantIdDev" THEN FALSE ELSE "empty"
DefaultResp(o) == [err |-> "NOERR", content |-> DefaultContent(o)]

NoCall == [op |-> "none", devname |-> "", type |-> ""]
NoResp == [err |-> "NOERR", content |-> "none"]

VARIABLES
  configOk,     \* whether the build matches the machine (fixed per process)
  guard,        \* initialization guard of the function-local static c
  up_,          \* Client::Impl::up_
  smiPtr,       \* smi() /= nullptr
  nCheckConfig, \* calls of check_config
  nSmiInit,     \* calls of smart_interface::init
  nDbInit,      \* calls of init_drive_database
  dbOk,         \* what init_drive_database returned ("none" before)
  pc,           \* per thread: position in the code
  nClients,     \* Client values constructed so far (any thread may use one)
  call,         \* per thread: operation in flight and its arguments
  device,       \* per thread: the local smart_device_auto_ptr
  ierr,         \* per thread: value returned by initDevice
  resp,         \* per thread: the response object
  log,          \* per thread: collaborator calls of the operation in flight
  heap,         \* device objects
  opened,       \* per thread: handles opened during the operation in flight
  closed,       \* per thread: open handles closed during the operation in flight
  acq,          \* per thread: what the device the operation ended up with is
  released,     \* per thread: the objects deleted during the operation in flight
  diag          \* per thread: outcome of the last errStr call

vars == << configOk, guard, up_, smiPtr, nCheckConfig, nSmiInit, nDbInit, dbOk,
           pc, nClients, call, device, ierr, resp, log, heap, opened, closed,
           acq, released, diag >>

initVars == << configOk, guard, up_, smiPtr, nCheckConfig, nSmiInit, nDbInit, dbOk >>
opVars == << call, device, ierr, resp, log, heap, opened, closed, acq, released >>

NoAcq == [got |-> FALSE, open |-> FALSE, ata |-> FALSE]
NoDiag == [arg |-> "none", outcome |-> "none", str |-> ""]

Init ==
  /\ configOk \in BOOLEAN
  /\ guard = "uninit"
  /\ up_ = FALSE
  /\ smiPtr = FALSE
  /\ nCheckConfig = 0
  /\ nSmiInit = 0
  /\ nDbInit = 0
  /\ dbOk = "none"
  /\ pc = [t \in Threads |-> "idle"]
  /\ nClients = 0
  /\ call = [t \in Threads |-> NoCall]
  /\ device = [t \in Threads |-> Null]
  /\ ierr = [t \in Threads |-> "NOERR"]
  /\ resp = [t \in Threads |-> NoResp]
  /\ log = [t \in Threads |-> << >>]
  /\ heap = [i \in ObjIds |-> FreeObj]
  /\ opened = [t \in Threads |-> 0]
  /\ closed = [t \in Threads |-> 0]
  /\ acq = [t \in Threads |-> NoAcq]
  /\ released = [t \in Threads |-> << >>]
  /\ diag = [t \in Threads |-> NoDiag]

\* ------------------------------------------------ Client construction
CtorPcs == { "getClient", "check_config", "smi_init", "smi_check", "db_init" }
InCtor == { u \in Threads : pc[u] \in CtorPcs }

\* Client::Client() enters Impl::getClient (line 221).
Client_Client(t) ==
  /\ pc[t] = "idle"
  /\ nClients + Cardinality(InCtor) < MaxClients
  /\ guard = "done" \/ nCheckConfig + Cardinality(InCtor) < MaxAttempts
  /\ pc' = [pc EXCEPT ![t] = "getClient"]
  /\ UNCHANGED << initVars, nClients, opVars, diag >>

\* The same without the guard of the function-local static: a thread that
\* finds c not yet constructed constructs it, whoever else is doing so.
getClient_InitUnguarded(t) ==
  /\ pc[t] = "getClient"
  /\ guard # "done"
  /\ guard' = "initializing"
  /\ pc' = [pc EXCEPT ![t] = "check_config"]
  /\ UNCHANGED << configOk, up_, smiPtr, nCheckConfig, nSmiInit, nDbInit, dbOk,
                  nClients, opVars, diag >>

\* A c that is no static: every call of getClient constructs it anew.
getClient_InitAlways(t) ==
  /\ pc[t] = "getClient"
  /\ guard' = "initializing"
  /\ pc' = [pc EXCEPT ![t] = "check_config"]
  /\ UNCHANGED << configOk, up_, smiPtr, nCheckConfig, nSmiInit, nDbInit, dbOk,
                  nClients, opVars, diag >>

\* static Client::Impl c; the first thread to arrive runs the constructor,
\* the others wait until it is complete (line 79).
getClient_Init(t) ==
  /\ pc[t] = "getClient"
  /\ guard = "uninit"
  /\ guard' = "initializing"
  /\ pc' = [pc EXCEPT ![t] = "check_config"]
  /\ UNCHANGED << configOk, up_, smiPtr, nCheckConfig, nSmiInit, nDbInit, dbOk,
                  nClients, opVars, diag >>

\* return c; by a thread that finds the construction begun and does not
\* wait for its end.
getClient_ReturnEarly(t) ==
  /\ pc[t] = "getClient"
  /\ guard # "uninit"
  /\ nClients' = nClients + 1
  /\ pc' = [pc EXCEPT ![t] = "idle"]
  /\ UNCHANGED << initVars, opVars, diag >>

\* return c; and the Client holds the reference (lines 80, 221).
getClient_Return(t) ==
  /\ pc[t] = "getClient"
  /\ guard = "done"
  /\ nClients' = nClients + 1
  /\ pc' = [pc EXCEPT ![t] = "idle"]
  /\ UNCHANGED << initVars, opVars, diag >>

\* check_config() (line 86).  A mismatch throws: the constructor is left by
\* the exception, c stays unconstructed and the exception leaves
\* Client::Client.
Impl_check_config(t) ==
  /\ pc[t] = "check_config"
  /\ nCheckConfig' = nCheckConfig + 1
  /\ IF configOk
       THEN /\ pc' = [pc EXCEPT ![t] = "smi_init"]
            /\ guard' = guard
       ELSE /\ pc' = [pc EXCEPT ![t] = "idle"]
            /\ guard' = "uninit"
  /\ UNCHANGED << configOk, up_, smiPtr, nSmiInit, nDbInit, dbOk,
                  nClients, opVars, diag >>

\* smart_interface::init() (line 88): an interface gets registered, or none.
Impl_smart_interface_init(t) ==
  /\ pc[t] = "smi_init"
  /\ nSmiInit' = nSmiInit + 1
  /\ \E avail \in BOOLEAN : smiPtr' = avail
  /\ pc' = [pc EXCEPT ![t] = "smi_check"]
  /\ UNCHANGED << configOk, guard, up_, nCheckConfig, nDbInit, dbOk,
                  nClients, opVars, diag >>

\* if (!smi()) { up_ = false; return; } (lines 89-92).
Impl_check_smi(t) ==
  /\ pc[t] = "smi_check"
  /\ IF ~smiPtr
       THEN /\ up_' = FALSE
            /\ guard' = "done"
            /\ pc' = [pc EXCEPT ![t] = "getClient"]
       ELSE /\ UNCHANGED << up_, guard >>
            /\ pc' = [pc EXCEPT ![t] = "db_init"]
  /\ UNCHANGED << configOk, smiPtr, nCheckConfig, nSmiInit, nDbInit, dbOk,
                  nClients, opVars, diag >>

\* The end of the constructor with up_ set whatever the database said.
Impl_init_drive_database_Ignored(t) ==
  /\ pc[t] = "db_init"
  /\ nDbInit' = nDbInit + 1
  /\ \E ok \in BOOLEAN : dbOk' = (IF ok THEN "ok" ELSE "failed")
  /\ up_' = TRUE
  /\ guard' = "done"
  /\ pc' = [pc EXCEPT ![t] = "getClient"]
  /\ UNCHANGED << configOk, smiPtr, nCheckConfig, nSmiInit, nClients, opVars, diag >>

\* init_drive_database(false) and the end of the constructor (lines 95-101).
Impl_init_drive_database(t) ==
  /\ pc[t] = "db_init"
  /\ nDbInit' = nDbInit + 1
  /\ \E ok \in BOOLEAN : dbOk' = (IF ok THEN "ok" ELSE "failed") /\ up_' = ok
  /\ guard' = "done"
  /\ pc' = [pc EXCEPT ![t] = "getClient"]
  /\ UNCHANGED << configOk, smiPtr, nCheckConfig, nSmiInit, nClients, opVars, diag >>

\* ------------------------------------------------------ device handles
Entry(c, o, a, r) == [call |-> c, obj |-> o, arg |-> a, ret |-> r]

\* delete of a device object; the destructor closes an open handle.
Delete(h, d) == IF d = Null THEN h ELSE [h EXCEPT ![d] = FreeObj]
WasOpen(h, d) == IF d # Null /\ h[d].live /\ h[d].open THEN 1 ELSE 0

\* What smi()->get_smart_device can answer: no object, or a new object of
\* the ATA family or of another one.
GetAnswers == { "null", "ata", "other" }

\* What autodetect_open can answer: the object itself, opened or not, or a
\* 'better' object of either family, open or not.  A better object is made
\* after the old one was opened; the old one is closed and given up.
OpenAnswers ==
  { [same |-> TRUE, open |-> o, ata |-> FALSE] : o \in BOOLEAN } \cup
  { [same |-> FALSE, open |-> o, ata |-> a] : o \in BOOLEAN, a \in BOOLEAN }

\* -------------------------------------------------- the entry of an op
\* The entry without the test of up_.
EnterNoCheck(t, o) ==
  /\ pc[t] = "idle"
  /\ nClients > 0
  /\ \E n \in DevNames, ty \in TypeHints :
       call' = [call EXCEPT ![t] = [op |-> o, devname |-> n, type |-> ty]]
  /\ log' = [log EXCEPT ![t] = << >>]
  /\ resp' = [resp EXCEPT ![t] = DefaultResp(o)]
  /\ pc' = [pc EXCEPT ![t] = "initDevice"]
  /\ UNCHANGED << initVars, nClients, device, ierr, heap, opened, closed, released, acq, diag >>

\* The response is default-constructed and up_ is tested
\* (lines 126-130, 160-164, 189-193).
Enter(t, o) ==
  /\ pc[t] = "idle"
  /\ nClients > 0
  /\ \E n \in DevNames, ty \in TypeHints :
       call' = [call EXCEPT ![t] = [op |-> o, devname |-> n, type |-> ty]]
  /\ log' = [log EXCEPT ![t] = << >>]
  /\ IF ~up_
       THEN /\ resp' = [resp EXCEPT ![t] =
                          [DefaultResp(o) EXCEPT !.err = "CLIENTINITIALIZTIONFAILURE"]]
            /\ pc' = [pc EXCEPT ![t] = "ret"]
       ELSE /\ resp' = [resp EXCEPT ![t] = DefaultResp(o)]
            /\ pc' = [pc EXCEPT ![t] = "initDevice"]
  /\ UNCHANGED << initVars, nClients, device, ierr, heap, opened, closed, released, acq, diag >>

cantIdDev_Enter(t) == Enter(t, "cantIdDev")
getDevInfo_Enter(t) == Enter(t, "getDevInfo")
getDevVendorAttrs_Enter(t) == Enter(t, "getDevVendorAttrs")

\* ----------------------------------------------------------- initDevice
\* The lookup with a missing object reported as an open failure.
initDevice_getAsOpenError(t) ==
  /\ pc[t] = "initDevice"
  /\ LET hint == IF call[t].type # "" THEN call[t].type ELSE NullPtr
         new == NewObj(heap, t)
     IN \E a \in GetAnswers :
          IF a = "null"
            THEN /\ log' = [log EXCEPT ![t] = Append(@,
                              Entry("get_smart_device", Null, << call[t].devname, hint >>, Null))]
                 /\ device' = [device EXCEPT ![t] = Null]
                 /\ heap' = heap
                 /\ ierr' = [ierr EXCEPT ![t] = "DEVICEOPENERR"]
                 /\ pc' = [pc EXCEPT ![t] = "initDevice_ret"]
            ELSE /\ log' = [log EXCEPT ![t] = Append(@,
                              Entry("get_smart_device", Null, << call[t].devname, hint >>, new))]
                 /\ device' = [device EXCEPT ![t] = new]
                 /\ heap' = [heap EXCEPT ![new] =
                               [live |-> TRUE, open |-> FALSE, ata |-> (a = "ata"), owner |-> t]]
                 /\ ierr' = ierr
                 /\ pc' = [pc EXCEPT ![t] = "autodetect_open"]
  /\ UNCHANGED << initVars, nClients, call, resp, opened, closed, released, acq, diag >>

\* The lookup without the null test: the open is attempted on whatever
\* came back.
initDevice_getNoNullTest(t) ==
  /\ pc[t] = "initDevice"
  /\ LET hint == IF call[t].type # "" THEN call[t].type ELSE NullPtr
         new == NewObj(heap, t)
     IN \E a \in GetAnswers :
          IF a = "null"
            THEN /\ log' = [log EXCEPT ![t] = Append(@,
                              Entry("get_smart_device", Null, << call[t].devname, hint >>, Null))]
                 /\ device' = [device EXCEPT ![t] = Null]
                 /\ heap' = heap
                 /\ ierr' = ierr
                 /\ pc' = [pc EXCEPT ![t] = "autodetect_open"]
            ELSE /\ log' = [log EXCEPT ![t] = Append(@,
                              Entry("get_smart_device", Null, << call[t].devname, hint >>, new))]
                 /\ device' = [device EXCEPT ![t] = new]
                 /\ heap' = [heap EXCEPT ![new] =
                               [live |-> TRUE, open |-> FALSE, ata |-> (a = "ata"), owner |-> t]]
                 /\ ierr' = ierr
                 /\ pc' = [pc EXCEPT ![t] = "autodetect_open"]
  /\ UNCHANGED << initVars, nClients, call, resp, opened, closed, released, acq, diag >>

\* The lookup answered from the object another call is holding.
initDevice_getShared(t) ==
  /\ pc[t] = "initDevice"
  /\ LET hint == IF call[t].type # "" THEN call[t].type ELSE NullPtr
         held == { device[u] : u \in Threads \ { t } } \ { Null }
         new == IF held # { } THEN CHOOSE o \in held : TRUE ELSE NewObj(heap, t)
     IN \E a \in GetAnswers :
          IF a = "null"
            THEN /\ log' = [log EXCEPT ![t] = Append(@,
                              Entry("get_smart_device", Null, << call[t].devname, hint >>, Null))]
                 /\ device' = [device EXCEPT ![t] = Null]
                 /\ heap' = heap
                 /\ ierr' = [ierr EXCEPT ![t] = "GETDEVICERR"]
                 /\ pc' = [pc EXCEPT ![t] = "initDevice_ret"]
            ELSE /\ log' = [log EXCEPT ![t] = Append(@,
                              Entry("get_smart_device", Null, << call[t].devname, hint >>, new))]
                 /\ device' = [device EXCEPT ![t] = new]
                 /\ heap' = IF held # { } THEN heap
                            ELSE [heap EXCEPT ![new] =
                                    [live |-> TRUE, open |-> FALSE, ata |-> (a = "ata"), owner |-> t]]
                 /\ ierr' = ierr
                 /\ pc' = [pc EXCEPT ![t] = "autodetect_open"]
  /\ UNCHANGED << initVars, nClients, call, resp, opened, closed, released, acq, diag >>

\* The lookup tried again after a first null answer.
initDevice_getRetry(t) ==
  /\ pc[t] = "initDevice"
  /\ LET hint == IF call[t].type # "" THEN call[t].type ELSE NullPtr
         new == NewObj(heap, t)
     IN \E a \in GetAnswers :
          IF a = "null"
            THEN /\ log' = [log EXCEPT ![t] = Append(@,
                              Entry("get_smart_device", Null, << call[t].devname, hint >>, Null))]
                 /\ device' = [device EXCEPT ![t] = Null]
                 /\ heap' = heap
                 /\ ierr' = [ierr EXCEPT ![t] = IF Len(log[t]) = 0 THEN @ ELSE "GETDEVICERR"]
                 /\ pc' = [pc EXCEPT ![t] =
                             IF Len(log[t]) = 0 THEN "initDevice" ELSE "initDevice_ret"]
            ELSE /\ log' = [log EXCEPT ![t] = Append(@,
                              Entry("get_smart_device", Null, << call[t].devname, hint >>, new))]
                 /\ device' = [device EXCEPT ![t] = new]
                 /\ heap' = [heap EXCEPT ![new] =
                               [live |-> TRUE, open |-> FALSE, ata |-> (a = "ata"), owner |-> t]]
                 /\ ierr' = ierr
                 /\ pc' = [pc EXCEPT ![t] = "autodetect_open"]
  /\ UNCHANGED << initVars, nClients, call, resp, opened, closed, released, acq, diag >>

\* get_smart_device with the hint or with nullptr, and the null test
\* (lines 105-113).
initDevice_get(t) ==
  /\ pc[t] = "initDevice"
  /\ LET hint == IF call[t].type # "" THEN call[t].type ELSE NullPtr
         new == NewObj(heap, t)
     IN \E a \in GetAnswers :
          IF a = "null"
            THEN /\ log' = [log EXCEPT ![t] = Append(@,
                              Entry("get_smart_device", Null, << call[t].devname, hint >>, Null))]
                 /\ device' = [device EXCEPT ![t] = Null]
                 /\ heap' = heap
                 /\ ierr' = [ierr EXCEPT ![t] = "GETDEVICERR"]
                 /\ pc' = [pc EXCEPT ![t] = "initDevice_ret"]
            ELSE /\ log' = [log EXCEPT ![t] = Append(@,
                              Entry("get_smart_device", Null, << call[t].devname, hint >>, new))]
                 /\ device' = [device EXCEPT ![t] = new]
                 /\ heap' = [heap EXCEPT ![new] =
                               [live |-> TRUE, open |-> FALSE, ata |-> (a = "ata"), owner |-> t]]
                 /\ ierr' = ierr
                 /\ pc' = [pc EXCEPT ![t] = "autodetect_open"]
  /\ UNCHANGED << initVars, nClients, call, resp, opened, closed, released, acq, diag >>

\* autodetect_open called with its result dropped: the holder keeps the
\* object it had, which a substitution has given up.
initDevice_openNoReplace(t) ==
  /\ pc[t] = "autodetect_open"
  /\ LET old == device[t]
         new == NewObj(heap, t)
     IN \E a \in OpenAnswers :
          LET cur == IF a.same THEN old ELSE new
              h1 == IF a.same
                      THEN [heap EXCEPT ![old].open = a.open]
                      ELSE [Delete(heap, old) EXCEPT ![new] =
                              [live |-> TRUE, open |-> a.open, ata |-> a.ata, owner |-> t]]
          IN /\ heap' = h1
             /\ device' = [device EXCEPT ![t] = old]
             /\ opened' = [opened EXCEPT ![t] =
                             @ + (IF a.same THEN 0 ELSE 1) + (IF a.open THEN 1 ELSE 0)]
             /\ closed' = [closed EXCEPT ![t] = @ + (IF a.same THEN 0 ELSE 1)]
             /\ released' = [released EXCEPT ![t] =
                               IF a.same THEN @ ELSE Append(@, old)]
             /\ log' = [log EXCEPT ![t] = @ \o
                          << Entry("autodetect_open", old, << >>, cur),
                             Entry("is_open", old, << >>, h1[old].open) >>]
             /\ ierr' = [ierr EXCEPT ![t] = IF h1[old].open THEN "NOERR" ELSE "DEVICEOPENERR"]
             /\ acq' = [acq EXCEPT ![t] =
                          [got |-> TRUE, open |-> h1[old].open, ata |-> h1[old].ata]]
  /\ pc' = [pc EXCEPT ![t] = "initDevice_ret"]
  /\ UNCHANGED << initVars, nClients, call, resp, diag >>

\* device.replace(device->autodetect_open()) and the is_open test
\* (lines 115-121).
initDevice_open(t) ==
  /\ pc[t] = "autodetect_open"
  /\ LET old == device[t]
         new == NewObj(heap, t)
     IN \E a \in OpenAnswers :
          LET cur == IF a.same THEN old ELSE new
              h1 == IF a.same
                      THEN [heap EXCEPT ![old].open = a.open]
                      ELSE [Delete(heap, old) EXCEPT ![new] =
                              [live |-> TRUE, open |-> a.open, ata |-> a.ata, owner |-> t]]
          IN /\ heap' = h1
             /\ device' = [device EXCEPT ![t] = cur]
             /\ opened' = [opened EXCEPT ![t] =
                             @ + (IF a.same THEN 0 ELSE 1) + (IF a.open THEN 1 ELSE 0)]
             /\ closed' = [closed EXCEPT ![t] = @ + (IF a.same THEN 0 ELSE 1)]
             /\ released' = [released EXCEPT ![t] =
                               IF a.same THEN @ ELSE Append(@, old)]
             /\ log' = [log EXCEPT ![t] = @ \o
                          << Entry("autodetect_open", old, << >>, cur),
                             Entry("is_open", cur, << >>, h1[cur].open) >>]
             /\ ierr' = [ierr EXCEPT ![t] = IF h1[cur].open THEN "NOERR" ELSE "DEVICEOPENERR"]
             /\ acq' = [acq EXCEPT ![t] =
                          [got |-> TRUE, open |-> h1[cur].open, ata |-> h1[cur].ata]]
  /\ pc' = [pc EXCEPT ![t] = "initDevice_ret"]
  /\ UNCHANGED << initVars, nClients, call, resp, diag >>

\* ------------------------------------------------- the end of an op
\* return resp; with the object still held somewhere (a pointer given up
\* by release(), a holder that outlives the call).
ReturnKeeping(t, r) ==
  /\ pc' = [pc EXCEPT ![t] = "ret"]
  /\ resp' = [resp EXCEPT ![t] = r]
  /\ heap' = heap
  /\ closed' = closed
  /\ released' = released
  /\ device' = [device EXCEPT ![t] = Null]

\* return resp; the local smart_device_auto_ptr goes out of scope, which
\* deletes the object it holds.
ReturnWith(t, r) ==
  /\ pc' = [pc EXCEPT ![t] = "ret"]
  /\ resp' = [resp EXCEPT ![t] = r]
  /\ heap' = Delete(heap, device[t])
  /\ closed' = [closed EXCEPT ![t] = @ + WasOpen(heap, device[t])]
  /\ released' = [released EXCEPT ![t] =
                    IF device[t] = Null THEN @ ELSE Append(@, device[t])]
  /\ device' = [device EXCEPT ![t] = Null]

\* The ATA collaborators.  cant_id answers a boolean; an extractor writes
\* into the content it is handed and answers an error code.
ExtractorErrs == { "NOERR", "POWERMODEBELOWOPTION", "FAILEDDEVICEIDREAD", "FAILEDSMARTCMD" }
ExtractorAnswers == { [err |-> e, content |-> c] : e \in ExtractorErrs, c \in Contents }

\* ------------------------------------------------------------ cantIdDev
\* The switch with the open failure handed on like any other failure.
cantIdDev_SwitchVerbatim(t) ==
  /\ pc[t] = "initDevice_ret"
  /\ call[t].op = "cantIdDev"
  /\ IF ierr[t] = "NOERR"
       THEN /\ pc' = [pc EXCEPT ![t] = "dispatch"]
            /\ resp' = [resp EXCEPT ![t].err = "NOERR"]
            /\ UNCHANGED << heap, closed, released, device >>
       ELSE ReturnWith(t, [resp[t] EXCEPT !.err = ierr[t]])
  /\ UNCHANGED << initVars, nClients, call, ierr, log, opened, acq, diag >>

\* The switch whose early returns leave the device object behind.
cantIdDev_SwitchKeeping(t) ==
  /\ pc[t] = "initDevice_ret"
  /\ call[t].op = "cantIdDev"
  /\ CASE ierr[t] = "NOERR" ->
            /\ pc' = [pc EXCEPT ![t] = "dispatch"]
            /\ resp' = [resp EXCEPT ![t].err = "NOERR"]
            /\ UNCHANGED << heap, closed, released, device >>
       [] ierr[t] = "DEVICEOPENERR" ->
            ReturnKeeping(t, [err |-> "NOERR", content |-> TRUE])
       [] OTHER ->
            ReturnKeeping(t, [resp[t] EXCEPT !.err = ierr[t]])
  /\ UNCHANGED << initVars, nClients, call, ierr, log, opened, acq, diag >>

\* The switch with the return of case DEVICEOPENERR missing: control falls
\* through to default.
cantIdDev_SwitchFallThrough(t) ==
  /\ pc[t] = "initDevice_ret"
  /\ call[t].op = "cantIdDev"
  /\ CASE ierr[t] = "NOERR" ->
            /\ pc' = [pc EXCEPT ![t] = "dispatch"]
            /\ resp' = [resp EXCEPT ![t].err = "NOERR"]
            /\ UNCHANGED << heap, closed, released, device >>
       [] ierr[t] = "DEVICEOPENERR" ->
            ReturnWith(t, [err |-> ierr[t], content |-> TRUE])
       [] OTHER ->
            ReturnWith(t, [resp[t] EXCEPT !.err = ierr[t]])
  /\ UNCHANGED << initVars, nClients, call, ierr, log, opened, acq, diag >>

\* ctlerr_t err = initDevice(...); switch (err) (lines 133-148).
cantIdDev_Switch(t) ==
  /\ pc[t] = "initDevice_ret"
  /\ call[t].op = "cantIdDev"
  /\ CASE ierr[t] = "NOERR" ->
            /\ pc' = [pc EXCEPT ![t] = "dispatch"]
            /\ resp' = [resp EXCEPT ![t].err = "NOERR"]
            /\ UNCHANGED << heap, closed, released, device >>
       [] ierr[t] = "DEVICEOPENERR" ->
            ReturnWith(t, [err |-> "NOERR", content |-> TRUE])
       [] OTHER ->
            ReturnWith(t, [resp[t] EXCEPT !.err = ierr[t]])
  /\ UNCHANGED << initVars, nClients, call, ierr, log, opened, acq, diag >>

\* The family test with the answer of cant_id turned around.
cantIdDev_DispatchNegated(t) ==
  /\ pc[t] = "dispatch"
  /\ call[t].op = "cantIdDev"
  /\ LET d == device[t] IN
       IF heap[d].ata
         THEN \E b \in BOOLEAN :
                /\ log' = [log EXCEPT ![t] = @ \o
                             << Entry("is_ata", d, << >>, TRUE),
                                Entry("to_ata", d, << >>, d),
                                Entry("cant_id", d, << >>, b) >>]
                /\ ReturnWith(t, [resp[t] EXCEPT !.content = ~b])
         ELSE /\ log' = [log EXCEPT ![t] = Append(@, Entry("is_ata", d, << >>, FALSE))]
              /\ ReturnWith(t, [resp[t] EXCEPT !.err = "UNSUPPORTEDDEVICETYPE"])
  /\ UNCHANGED << initVars, nClients, call, ierr, opened, acq, diag >>

\* The dispatch without the family test.
cantIdDev_DispatchAnyFamily(t) ==
  /\ pc[t] = "dispatch"
  /\ call[t].op = "cantIdDev"
  /\ LET d == device[t] IN
       \E b \in BOOLEAN :
          /\ log' = [log EXCEPT ![t] = @ \o
                       << Entry("to_ata", d, << >>, d),
                          Entry("cant_id", d, << >>, b) >>]
          /\ ReturnWith(t, [resp[t] EXCEPT !.content = b])
  /\ UNCHANGED << initVars, nClients, call, ierr, opened, acq, diag >>

\* if (device->is_ata()) resp.content = cant_id(device->to_ata());
\* else resp.err = UNSUPPORTEDDEVICETYPE; return resp; (lines 150-157).
cantIdDev_Dispatch(t) ==
  /\ pc[t] = "dispatch"
  /\ call[t].op = "cantIdDev"
  /\ LET d == device[t] IN
       IF heap[d].ata
         THEN \E b \in BOOLEAN :
                /\ log' = [log EXCEPT ![t] = @ \o
                             << Entry("is_ata", d, << >>, TRUE),
                                Entry("to_ata", d, << >>, d),
                                Entry("cant_id", d, << >>, b) >>]
                /\ ReturnWith(t, [resp[t] EXCEPT !.content = b])
         ELSE /\ log' = [log EXCEPT ![t] = Append(@, Entry("is_ata", d, << >>, FALSE))]
              /\ ReturnWith(t, [resp[t] EXCEPT !.err = "UNSUPPORTEDDEVICETYPE"])
  /\ UNCHANGED << initVars, nClients, call, ierr, opened, acq, diag >>

\* ----------------------------------------- getDevInfo, getDevVendorAttrs
\* resp.err = initDevice(...); if (resp.err != NOERR) return resp;
\* (lines 172-176, 202-206).
Check(t, o) ==
  /\ pc[t] = "initDevice_ret"
  /\ call[t].op = o
  /\ IF ierr[t] # "NOERR"
       THEN ReturnWith(t, [resp[t] EXCEPT !.err = ierr[t]])
       ELSE /\ pc' = [pc EXCEPT ![t] = "dispatch"]
            /\ resp' = [resp EXCEPT ![t].err = ierr[t]]
            /\ UNCHANGED << heap, closed, released, device >>
  /\ UNCHANGED << initVars, nClients, call, ierr, log, opened, acq, diag >>

getDevInfo_Check(t) == Check(t, "getDevInfo")
getDevVendorAttrs_Check(t) == Check(t, "getDevVendorAttrs")

\* The dispatch that hands on what the extractor wrote only when the
\* extractor answered NOERR.
DispatchContentOnSuccess(t, o, extractor, flag) ==
  /\ pc[t] = "dispatch"
  /\ call[t].op = o
  /\ LET d == device[t] IN
       IF heap[d].ata
         THEN \E x \in ExtractorAnswers :
                /\ log' = [log EXCEPT ![t] = @ \o
                             << Entry("is_ata", d, << >>, TRUE),
                                Entry("to_ata", d, << >>, d),
                                Entry(extractor, d, << flag >>, x) >>]
                /\ ReturnWith(t, [err |-> x.err,
                                  content |-> IF x.err = "NOERR" THEN x.content
                                              ELSE DefaultContent(o)])
         ELSE /\ log' = [log EXCEPT ![t] = Append(@, Entry("is_ata", d, << >>, FALSE))]
              /\ ReturnWith(t, [resp[t] EXCEPT !.err = "UNSUPPORTEDDEVICETYPE"])
  /\ UNCHANGED << initVars, nClients, call, ierr, opened, acq, diag >>

\* if (device->is_ata()) resp.err = <extractor>(resp.content, device->to_ata(),
\* ataopts); else resp.err = UNSUPPORTEDDEVICETYPE; return resp;
\* (lines 178-185, 208-215).  flag is the one option set in ataopts
\* (lines 170, 199-200).
Dispatch(t, o, extractor, flag) ==
  /\ pc[t] = "dispatch"
  /\ call[t].op = o
  /\ LET d == device[t] IN
       IF heap[d].ata
         THEN \E x \in ExtractorAnswers :
                /\ log' = [log EXCEPT ![t] = @ \o
                             << Entry("is_ata", d, << >>, TRUE),
                                Entry("to_ata", d, << >>, d),
                                Entry(extractor, d, << flag >>, x) >>]
                /\ ReturnWith(t, [err |-> x.err, content |-> x.content])
         ELSE /\ log' = [log EXCEPT ![t] = Append(@, Entry("is_ata", d, << >>, FALSE))]
              /\ ReturnWith(t, [resp[t] EXCEPT !.err = "UNSUPPORTEDDEVICETYPE"])
  /\ UNCHANGED << initVars, nClients, call, ierr, opened, acq, diag >>

getDevInfo_Dispatch(t) ==
  Dispatch(t, "getDevInfo", "get_ata_information", "drive_info")
getDevVendorAttrs_Dispatch(t) ==
  Dispatch(t, "getDevVendorAttrs", "get_ata_vendor_attr", "smart_vendor_attrib")

\* The forwarding method of Client hands the response to the caller
\* (lines 223-236); the call is over.
Client_Return(t) ==
  /\ pc[t] = "ret"
  /\ pc' = [pc EXCEPT ![t] = "idle"]
  /\ call' = [call EXCEPT ![t] = NoCall]
  /\ resp' = [resp EXCEPT ![t] = NoResp]
  /\ log' = [log EXCEPT ![t] = << >>]
  /\ ierr' = [ierr EXCEPT ![t] = "NOERR"]
  /\ opened' = [opened EXCEPT ![t] = 0]
  /\ closed' = [closed EXCEPT ![t] = 0]
  /\ acq' = [acq EXCEPT ![t] = NoAcq]
  /\ released' = [released EXCEPT ![t] = << >>]
  /\ UNCHANGED << initVars, nClients, device, heap, diag >>

\* --------------------------------------------------------------- errStr
\* A caller looks a code up (lines 60-73); out_of_range leaves errStr as
\* an exception.
errStr_Call(t) ==
  /\ pc[t] = "idle"
  /\ \E e \in ctlerr_t \cup OutOfEnum :
       diag' = [diag EXCEPT ![t] =
                  [arg |-> e, outcome |-> errStr(e).outcome, str |-> errStr(e).str]]
  /\ pc' = [pc EXCEPT ![t] = "errStr_ret"]
  /\ UNCHANGED << initVars, nClients, opVars >>

errStr_Return(t) ==
  /\ pc[t] = "errStr_ret"
  /\ diag' = [diag EXCEPT ![t] = NoDiag]
  /\ pc' = [pc EXCEPT ![t] = "idle"]
  /\ UNCHANGED << initVars, nClients, opVars >>

\* ------------------------------------------------------- specification
Next ==
  \E t \in Threads :
    \/ Client_Client(t)
    \/ getClient_Init(t)
    \/ getClient_Return(t)
    \/ Impl_check_config(t)
    \/ Impl_smart_interface_init(t)
    \/ Impl_check_smi(t)
    \/ Impl_init_drive_database(t)
    \/ cantIdDev_Enter(t)
    \/ getDevInfo_Enter(t)
    \/ getDevVendorAttrs_Enter(t)
    \/ initDevice_get(t)
    \/ initDevice_open(t)
    \/ cantIdDev_Switch(t)
    \/ cantIdDev_Dispatch(t)
    \/ getDevInfo_Check(t)
    \/ getDevInfo_Dispatch(t)
    \/ getDevVendorAttrs_Check(t)
    \/ getDevVendorAttrs_Dispatch(t)
    \/ Client_Return(t)

Spec == Init /\ [][Next]_vars

\* The steps inside an operation: each is a call that returns to the
\* thread that made it.
OpStep(t) ==
  \/ initDevice_get(t)
  \/ initDevice_open(t)
  \/ cantIdDev_Switch(t)
  \/ cantIdDev_Dispatch(t)
  \/ getDevInfo_Check(t)
  \/ getDevInfo_Dispatch(t)
  \/ getDevVendorAttrs_Check(t)
  \/ getDevVendorAttrs_Dispatch(t)

\* Callers that only look codes up.
NextErrStr ==
  \E t \in Threads :
    \/ errStr_Call(t)
    \/ errStr_Return(t)

SpecErrStr == Init /\ [][NextErrStr]_vars

\* ================================================================ claims
\* What the log of the operation in flight tells.
FirstGot(t) == log[t][1].ret
NoDeviceGot(t) == Len(log[t]) >= 1 /\ log[t][1].call = "get_smart_device" /\ FirstGot(t) = Null
OpenFailed(t) == acq[t].got /\ ~acq[t].open
OpenDone(t) == acq[t].got /\ acq[t].open
IsAtaCall(c) == c \in { "cant_id", "get_ata_information", "get_ata_vendor_attr" }
AtaCalls(t) == { i \in 1..Len(log[t]) : IsAtaCall(log[t][i].call) }
Returned(t) == pc[t] = "ret"
HeldBy(t) == { i \in ObjIds : heap[i].live /\ heap[i].owner = t }
InFlightPcs == { "initDevice", "autodetect_open", "initDevice_ret", "dispatch" }
Obtained(t) ==
  { log[t][i].ret :
      i \in { j \in 1..Len(log[t]) :
                log[t][j].call \in { "get_smart_device", "autodetect_open" } } } \ { Null }
Count(s, x) == Cardinality({ i \in 1..Len(s) : s[i] = x })
Substituted(t) ==
  Len(log[t]) >= 2 /\ log[t][2].call = "autodetect_open" /\ log[t][2].ret # log[t][2].obj
NotReady == guard = "done" /\ ~up_

\* The states of an operation: NotStarted, RuntimeChecked, DeviceAcquired
\* (the open attempted, initDevice returned), FamilyDispatched, Done.
OpRank(p) ==
  CASE p = "initDevice" -> 1
    [] p = "autodetect_open" -> 2
    [] p = "initDevice_ret" -> 3
    [] p = "dispatch" -> 4
    [] p = "ret" -> 5
    [] OTHER -> 0
ObservedReady(t) == ~(Returned(t) /\ resp[t].err = "CLIENTINITIALIZTIONFAILURE")
OnDevice(c) == c \in { "autodetect_open", "is_open", "is_ata", "to_ata" } \/ IsAtaCall(c)
UsedBy(t) ==
  ({ log[t][i].obj : i \in 1..Len(log[t]) }
     \cup { released[t][i] : i \in 1..Len(released[t]) }
     \cup { device[t] }) \ { Null }
OwnCollaborator(o) ==
  CASE o = "cantIdDev" -> "cant_id"
    [] o = "getDevInfo" -> "get_ata_information"
    [] o = "getDevVendorAttrs" -> "get_ata_vendor_attr"
    [] OTHER -> "none"
CallsOf(t, cs) == { i \in 1..Len(log[t]) : log[t][i].call \in cs }
OncePerCall(t) ==
  /\ Cardinality(CallsOf(t, { "get_smart_device" })) <= 1
  /\ Cardinality(CallsOf(t, { "autodetect_open" })) <= 1
  /\ Cardinality(AtaCalls(t)) <= 1
ForwardStep(t) ==
  /\ (pc[t] \in InFlightPcs /\ pc'[t] # pc[t]) => OpRank(pc'[t]) > OpRank(pc[t])
  /\ (pc[t] \in InFlightPcs /\ OpStep(t)) => pc'[t] # pc[t]
  /\ (pc[t] \in InFlightPcs /\ pc'[t] = pc[t]) => log'[t] = log[t]
  /\ (pc[t] = "ret" /\ pc'[t] # pc[t]) => pc'[t] = "idle"
  /\ (pc[t] \in InFlightPcs /\ ierr[t] # "NOERR") => (log'[t] = log[t] /\ pc'[t] \in { pc[t], "ret" })
FailedAt(t) ==
  CASE log[t] = << >> -> "CLIENTINITIALIZTIONFAILURE"
    [] log[t] # << >> /\ ierr[t] # "NOERR" -> ierr[t]
    [] log[t] # << >> /\ ierr[t] = "NOERR" /\ Len(log[t]) = 4 -> "UNSUPPORTEDDEVICETYPE"
    [] OTHER -> "NOERR"
FailureLogLen(e) ==
  CASE e = "CLIENTINITIALIZTIONFAILURE" -> 0
    [] e = "GETDEVICERR" -> 1
    [] e = "DEVICEOPENERR" -> 3
    [] OTHER -> 4

\* C1: once the initialization has ended not-ready, every call of the three
\* operations returns CLIENTINITIALIZTIONFAILURE and calls no collaborator
\* at all: no get_smart_device, no autodetect_open, no ATA collaborator, and
\* no device object exists.
C1_NotReadyFailsFast ==
  NotReady =>
    /\ \A t \in Threads :
         call[t].op # "none" =>
           /\ Returned(t)
           /\ resp[t].err = "CLIENTINITIALIZTIONFAILURE"
           /\ log[t] = << >>
           /\ device[t] = Null
    /\ \A i \in ObjIds : ~heap[i].live

C1_Witness ==
  \E t \in Threads :
    /\ NotReady /\ smiPtr /\ dbOk = "failed"
    /\ Returned(t) /\ call[t].op = "getDevVendorAttrs"
    /\ resp[t].err = "CLIENTINITIALIZTIONFAILURE"

\* C2: however many Client values are constructed, and from however many
\* threads at once, the constructor of the singleton runs once: never two
\* threads inside it, smart_interface::init and init_drive_database called
\* at most once, and once a Client exists smart_interface::init has been
\* called exactly once, whether up_ ended true or false.
C2_InitOnce ==
  /\ Cardinality({ t \in Threads : pc[t] \in CtorPcs \ { "getClient" } }) <= 1
  /\ nSmiInit <= 1
  /\ nDbInit <= 1
  /\ (guard = "done" \/ nClients > 0) => (nSmiInit = 1 /\ nCheckConfig = 1)

C2_Witness ==
  /\ nClients = MaxClients
  /\ nSmiInit = 1
  /\ ~up_

\* C3: when get_smart_device answers no object, the operation returns
\* GETDEVICERR with the default content and has called nothing else: no
\* autodetect_open, no ATA collaborator.
C3_NoDevice ==
  \A t \in Threads :
    NoDeviceGot(t) =>
      /\ Len(log[t]) = 1
      /\ device[t] = Null
      /\ Returned(t) =>
           /\ resp[t].err = "GETDEVICERR"
           /\ resp[t].content = DefaultContent(call[t].op)

C3_Witness ==
  \E t \in Threads :
    /\ Returned(t) /\ NoDeviceGot(t) /\ up_
    /\ call[t].op = "cantIdDev"
    /\ resp[t] = [err |-> "GETDEVICERR", content |-> FALSE]

\* C4: when the object reports not-open after autodetect_open, cantIdDev
\* returns (NOERR, true), getDevInfo and getDevVendorAttrs return
\* DEVICEOPENERR, and none of them asks for the family or calls an ATA
\* collaborator.
C4_OpenFailure ==
  \A t \in Threads :
    OpenFailed(t) =>
      /\ Len(log[t]) = 3
      /\ Returned(t) =>
           IF call[t].op = "cantIdDev"
             THEN resp[t] = [err |-> "NOERR", content |-> TRUE]
             ELSE resp[t].err = "DEVICEOPENERR"

C4_Witness ==
  \E t \in Threads :
    /\ Returned(t) /\ OpenFailed(t)
    /\ call[t].op = "cantIdDev"
    /\ resp[t] = [err |-> "NOERR", content |-> TRUE]

\* C5: when the device is open and of the ATA family, cantIdDev returns
\* NOERR and as content the very boolean cant_id answered.
C5_CantIdVerbatim ==
  \A t \in Threads :
    (Returned(t) /\ call[t].op = "cantIdDev" /\ OpenDone(t) /\ acq[t].ata) =>
      /\ Len(log[t]) = 6
      /\ log[t][6].call = "cant_id"
      /\ resp[t] = [err |-> "NOERR", content |-> log[t][6].ret]

C5_Witness ==
  \E t \in Threads :
    /\ Returned(t) /\ call[t].op = "cantIdDev" /\ OpenDone(t) /\ acq[t].ata
    /\ Len(log[t]) = 6 /\ log[t][6].call = "cant_id" /\ log[t][6].ret = FALSE
    /\ resp[t] = [err |-> "NOERR", content |-> FALSE]

\* C6: when the device is open and not of the ATA family, each operation
\* returns UNSUPPORTEDDEVICETYPE with the default content and calls no ATA
\* collaborator.
C6_NotAta ==
  \A t \in Threads :
    (OpenDone(t) /\ ~acq[t].ata) =>
      /\ AtaCalls(t) = { }
      /\ Returned(t) =>
           /\ resp[t].err = "UNSUPPORTEDDEVICETYPE"
           /\ resp[t].content = DefaultContent(call[t].op)

C6_Witness ==
  \E t \in Threads :
    /\ Returned(t) /\ OpenDone(t) /\ ~acq[t].ata
    /\ call[t].op = "getDevInfo"
    /\ resp[t] = [err |-> "UNSUPPORTEDDEVICETYPE", content |-> "empty"]

\* C7: when initDevice has answered GETDEVICERR or DEVICEOPENERR, then once
\* the operation has returned the caller holds no device object, none of the
\* objects the call obtained is left alive or open, and as many handles
\* were closed as were opened.
C7_NoHandleLeft ==
  \A t \in Threads :
    (Returned(t) /\ log[t] # << >> /\ ierr[t] \in { "GETDEVICERR", "DEVICEOPENERR" }) =>
      /\ device[t] = Null
      /\ HeldBy(t) = { }
      /\ opened[t] = closed[t]

C7_Witness ==
  \E t \in Threads :
    /\ Returned(t) /\ ierr[t] = "DEVICEOPENERR" /\ OpenFailed(t)
    /\ log[t][1].ret # log[t][2].ret
    /\ HeldBy(t) = { }

\* C8: whatever the operation and the collaborators' answers, a response
\* whose err is not NOERR carries the default-constructed content.
C8_ErrorMeansDefaultContent ==
  \A t \in Threads :
    (Returned(t) /\ resp[t].err # "NOERR") =>
      resp[t].content = DefaultContent(call[t].op)

\* C9: errStr returns a non-empty description for each of the eight
\* enumerators, and a lookup of any other code ends in out_of_range, never
\* in a string.
C9_ErrStr ==
  /\ Cardinality(ctlerr_t) = 8
  /\ \A t \in Threads :
       diag[t].outcome # "none" =>
         IF diag[t].arg \in ctlerr_t
           THEN diag[t].outcome = "returned" /\ diag[t].str # ""
           ELSE diag[t].outcome = "out_of_range"

C9_Witness ==
  \E t, u \in Threads :
    /\ diag[t].arg = "ctlerr_t(8)" /\ diag[t].outcome = "out_of_range"
    /\ diag[u].arg = "CLIENTINITIALIZTIONFAILURE" /\ diag[u].outcome = "returned"

\* C10: init_drive_database is called only after smart_interface::init has
\* returned and smi() was found non-null; with no interface it is never
\* called; and when the constructor has finished, up_ is true exactly when
\* an interface was there and init_drive_database reported success.
C10_InitOrder ==
  /\ \A t \in Threads : pc[t] = "db_init" => (nSmiInit >= 1 /\ smiPtr)
  /\ nDbInit >= 1 => (nSmiInit >= 1 /\ smiPtr)
  /\ ~smiPtr => (nDbInit = 0 /\ dbOk = "none")
  /\ guard = "done" => (up_ <=> (smiPtr /\ dbOk = "ok"))

C10_Witness ==
  /\ guard = "done"
  /\ smiPtr /\ dbOk = "failed" /\ nDbInit = 1
  /\ ~up_

\* C11: with a configuration mismatch neither smart_interface::init nor
\* init_drive_database is run, up_ is never set, and the initialization
\* sequence is entered at most once in the process: a later construction
\* does not run check_config again.
C11_MismatchIsFinal ==
  ~configOk =>
    /\ nSmiInit = 0
    /\ nDbInit = 0
    /\ ~up_
    /\ guard # "done"
    /\ nCheckConfig <= 1

\* C12: once the constructor has finished, up_ keeps its value and the
\* singleton stays constructed, whatever step any thread takes.
C12_ReadyWriteOnce == [][guard = "done" => (guard' = "done" /\ up_' = up_)]_vars

C12_Witness ==
  \E t \in Threads :
    /\ guard = "done" /\ ~up_ /\ ~smiPtr
    /\ nClients = MaxClients
    /\ Returned(t) /\ call[t].op = "cantIdDev"
    /\ resp[t].err = "CLIENTINITIALIZTIONFAILURE"

\* C13: when an operation has returned, on whichever path, the holder is
\* empty, every object the call obtained has been deleted, none is alive or
\* open, and as many handles were closed as opened; outside a call a thread
\* holds no object at all.
C13_ReleasedOnEveryPath ==
  \A t \in Threads :
    /\ pc[t] \notin InFlightPcs => (device[t] = Null /\ HeldBy(t) = { })
    /\ Returned(t) =>
         /\ opened[t] = closed[t]
         /\ \A o \in Obtained(t) : Count(released[t], o) >= 1 /\ ~heap[o].live

C13_Witness ==
  \E t \in Threads :
    /\ Returned(t) /\ call[t].op = "getDevVendorAttrs"
    /\ OpenDone(t) /\ acq[t].ata /\ resp[t].err = "FAILEDSMARTCMD"
    /\ Len(released[t]) = 2 /\ opened[t] = 2 /\ closed[t] = 2
    /\ HeldBy(t) = { }

\* C14: after autodetect_open every further call of the operation is made
\* on the object it returned, the holder holds that object or nothing, and
\* no object is deleted twice; a replaced object is deleted at once, and
\* when the operation has returned both the replaced and the returned
\* object (one object, when the open returned the same) were deleted
\* exactly once.
C14_LatestObjectOnly ==
  \A t \in Threads :
    (Len(log[t]) >= 2 /\ log[t][2].call = "autodetect_open") =>
      LET old == log[t][2].obj
          cur == log[t][2].ret
      IN /\ \A i \in 3..Len(log[t]) : log[t][i].obj = cur
         /\ device[t] \in { cur, Null }
         /\ Count(released[t], old) <= 1
         /\ Count(released[t], cur) <= 1
         /\ old # cur => (Count(released[t], old) = 1 /\ ~heap[old].live)
         /\ Returned(t) => (Count(released[t], cur) = 1 /\ Count(released[t], old) = 1)

C14_Witness ==
  \E t \in Threads :
    /\ Returned(t) /\ Substituted(t) /\ call[t].op = "cantIdDev"
    /\ Len(log[t]) = 6 /\ log[t][6].call = "cant_id" /\ log[t][6].obj = log[t][2].ret
    /\ released[t] = << log[t][2].obj, log[t][2].ret >>

\* C15 as stated: also a failed open in cantIdDev would come back with
\* the ErrorCode of the failure.
C15_FailureCodeReturned ==
  \A t \in Threads :
    (Returned(t) /\ FailedAt(t) # "NOERR") => resp[t].err = FailedAt(t)

\* C15: an operation moves only forwards through NotStarted,
\* RuntimeChecked, DeviceAcquired, FamilyDispatched, Done; the lookup, the
\* open and the ATA collaborator are each called at most once per call;
\* once a step has failed no further collaborator is called and the next
\* state is Done; an operation in flight reaches Done, because in each of
\* its states before Done it has a step it can take whatever the other
\* threads do, and each step takes it to a later state; and the ErrorCode
\* returned is the failure's, except that cantIdDev answers a failed open
\* with NOERR and content true.
C15_LinearOperation ==
  /\ [](\A t \in Threads :
          /\ OncePerCall(t)
          /\ pc[t] \in InFlightPcs => ENABLED OpStep(t)
          /\ (Returned(t) /\ FailedAt(t) # "NOERR") =>
               /\ Len(log[t]) = FailureLogLen(FailedAt(t))
               /\ IF call[t].op = "cantIdDev" /\ FailedAt(t) = "DEVICEOPENERR"
                    THEN resp[t] = [err |-> "NOERR", content |-> TRUE]
                    ELSE resp[t].err = FailedAt(t))
  /\ [][\A t \in Threads : ForwardStep(t)]_vars

C15_Witness ==
  \E t, u \in Threads :
    /\ Returned(t) /\ call[t].op = "cantIdDev" /\ FailedAt(t) = "DEVICEOPENERR"
    /\ resp[t] = [err |-> "NOERR", content |-> TRUE]
    /\ Returned(u) /\ call[u].op = "getDevInfo" /\ FailedAt(u) = "DEVICEOPENERR"
    /\ resp[u].err = "DEVICEOPENERR" /\ Len(log[u]) = 3

\* C16: with the runtime ready and an open ATA device acquired,
\* getDevInfo returns exactly the ErrorCode and the content its call of
\* get_ata_information produced, and getDevVendorAttrs exactly those its
\* call of get_ata_vendor_attr produced, whatever the ErrorCode; no
\* operation ever calls another operation's collaborator.
C16_ExtractorPassThrough ==
  \A t \in Threads :
    /\ \A i \in AtaCalls(t) : log[t][i].call = OwnCollaborator(call[t].op)
    /\ (/\ Returned(t)
        /\ call[t].op \in { "getDevInfo", "getDevVendorAttrs" }
        /\ up_ /\ OpenDone(t) /\ acq[t].ata) =>
         /\ AtaCalls(t) = { Len(log[t]) }
         /\ log[t][Len(log[t])].call = OwnCollaborator(call[t].op)
         /\ resp[t] = log[t][Len(log[t])].ret

C16_Witness ==
  \E t, u \in Threads :
    /\ Returned(t) /\ call[t].op = "getDevInfo" /\ OpenDone(t) /\ acq[t].ata
    /\ log[t][Len(log[t])].call = "get_ata_information"
    /\ resp[t] = [err |-> "FAILEDDEVICEIDREAD", content |-> "partial"]
    /\ Returned(u) /\ call[u].op = "getDevVendorAttrs" /\ OpenDone(u) /\ acq[u].ata
    /\ log[u][Len(log[u])].call = "get_ata_vendor_attr"
    /\ resp[u] = [err |-> "NOERR", content |-> "full"]

\* C17: whatever the interleaving, an operation calls, holds and deletes
\* only objects it obtained itself in this call, no object is obtained,
\* held or used by two operations, and every live object is held by
\* exactly one operation in flight, the one that obtained it.
C17_HandlesNotShared ==
  /\ \A t \in Threads :
       /\ UsedBy(t) \subseteq Obtained(t)
       /\ \A u \in Threads \ { t } :
            (UsedBy(t) \cup Obtained(t)) \cap (UsedBy(u) \cup Obtained(u)) = { }
  /\ \A o \in ObjIds :
       heap[o].live =>
         /\ Cardinality({ t \in Threads : device[t] = o }) = 1
         /\ \A t \in Threads :
              device[t] = o =>
                (pc[t] \in InFlightPcs /\ heap[o].owner = t /\ o \in Obtained(t))

C17_Witness ==
  \E t, u \in Threads :
    /\ t # u
    /\ pc[t] = "dispatch" /\ pc[u] = "dispatch"
    /\ call[t].devname = call[u].devname /\ call[t].type = call[u].type
    /\ device[t] # Null /\ device[u] # Null /\ device[t] # device[u]
    /\ heap[device[t]].live /\ heap[device[u]].live
    /\ Substituted(t)

\* C18: a Client exists, and so an operation can be called, only when the
\* construction of the shared Impl has finished; no operation is in
\* progress or returned while the construction has not begun or is under
\* way, and what an operation saw of up_ (it went on, or it returned
\* CLIENTINITIALIZTIONFAILURE) is the value up_ has, which is its final
\* one.
C18_FlagReadAfterInit ==
  /\ nClients > 0 => guard = "done"
  /\ \A t \in Threads :
       /\ (call[t].op # "none" \/ pc[t] \in InFlightPcs \/ Returned(t)) =>
            (guard = "done" /\ ObservedReady(t) = up_)
       /\ pc[t] \in CtorPcs \ { "getClient" } => (guard = "initializing" /\ nClients = 0)

C18_Witness ==
  \E t, u \in Threads :
    /\ t # u
    /\ nClients = MaxClients /\ nCheckConfig = 1 /\ nSmiInit = 1 /\ nDbInit = 1
    /\ guard = "done" /\ up_
    /\ Returned(t) /\ resp[t].err = "NOERR" /\ call[t].op = "getDevInfo"
    /\ pc[u] = "initDevice" /\ call[u].op = "getDevVendorAttrs"

\* C19: autodetect_open, is_open, is_ata, to_ata and the ATA collaborators
\* are never called on a null object, autodetect_open included and what it
\* returns included; and an ATA collaborator is called only with the
\* runtime ready, on the object the holder has after the open, after
\* is_open and is_ata have both answered true on that object, which is
\* open and ATA.
C19_AtaOnlyOnOpenAtaDevice ==
  \A t \in Threads :
    /\ \A i \in 1..Len(log[t]) : OnDevice(log[t][i].call) => log[t][i].obj # Null
    /\ \A i \in CallsOf(t, { "autodetect_open", "to_ata" }) : log[t][i].ret # Null
    /\ pc[t] \in { "autodetect_open", "dispatch" } =>
         (device[t] # Null /\ heap[device[t]].live)
    /\ pc[t] = "dispatch" => heap[device[t]].open
    /\ \A i \in AtaCalls(t) :
         /\ guard = "done" /\ up_
         /\ i = 6
         /\ log[t][2].call = "autodetect_open" /\ log[t][i].obj = log[t][2].ret
         /\ log[t][3].call = "is_open" /\ log[t][3].obj = log[t][i].obj /\ log[t][3].ret = TRUE
         /\ log[t][4].call = "is_ata" /\ log[t][4].obj = log[t][i].obj /\ log[t][4].ret = TRUE
         /\ log[t][5].call = "to_ata" /\ log[t][5].ret = log[t][i].obj
         /\ acq[t].got /\ acq[t].open /\ acq[t].ata

C19_Witness ==
  \E t \in Threads :
    /\ Returned(t) /\ call[t].op = "getDevVendorAttrs" /\ Substituted(t)
    /\ AtaCalls(t) = { 6 } /\ log[t][6].call = "get_ata_vendor_attr"
    /\ log[t][6].obj = log[t][2].ret /\ log[t][6].obj # Null
    /\ resp[t].err = "NOERR"

\* C20: the ErrorCode cantIdDev returns is one of NOERR, GETDEVICERR,
\* UNSUPPORTEDDEVICETYPE, CLIENTINITIALIZTIONFAILURE, never DEVICEOPENERR,
\* and content is true only together with NOERR.
C20_CantIdDevCodes ==
  \A t \in Threads :
    (Returned(t) /\ call[t].op = "cantIdDev") =>
      /\ resp[t].err \in { "NOERR", "GETDEVICERR", "UNSUPPORTEDDEVICETYPE",
                           "CLIENTINITIALIZTIONFAILURE" }
      /\ resp[t].err # "DEVICEOPENERR"
      /\ resp[t].content = TRUE => resp[t].err = "NOERR"

C20_Witness ==
  \E t, u \in Threads :
    /\ Returned(t) /\ call[t].op = "cantIdDev"
    /\ resp[t] = [err |-> "UNSUPPORTEDDEVICETYPE", content |-> FALSE]
    /\ Returned(u) /\ call[u].op = "cantIdDev" /\ AtaCalls(u) # { }
    /\ resp[u] = [err |-> "NOERR", content |-> TRUE]

====
